---- MODULE Spec2Model ----
(***************************************************************************)
(* Model of the tools of bactensor/sink:                                   *)
(*   tools/ss58_to_pub32.py              the SS58 decoder ss58_to_pub32    *)
(*   tools/get_all_validators_and_stake.py  the hotkey conversion loop     *)
(*   tools/register_neuron.py            main(): balance check and send    *)
(* A byte string is a sequence of integers 0..255, a text string a         *)
(* sequence of one-character strings.                                      *)
(***************************************************************************)
EXTENDS Integers, Sequences, FiniteSets, TLC

VARIABLES
    pc,            \* per call of ss58_to_pub32: the statement it is at
    ss58_address,  \* per call: the parameter ss58_address
    as_hex,        \* per call: the parameter as_hex
    data,          \* per call: local data (line 18)
    prefix,        \* per call: local prefix (lines 22, 26)
    pubkey,        \* per call: local pubkey (lines 23, 27)
    checksum,      \* per call: local checksum (lines 24, 28)
    h,             \* per call: local h (line 31)
    outcome,       \* per call: what the call returned or raised
    bpc,           \* batch script: position in the conversion loop
    hotkeys,       \* batch script: list hotkeys (line 38)
    idx,           \* batch script: number of loop iterations completed
    amounts,       \* batch script: list amounts (line 41)
    pub32_list,    \* batch script: list pub32_list (line 42)
    crashed,       \* batch script: the exception that ended the script
    rpc,           \* register_neuron: position in main()
    balance_wei,   \* register_neuron: balance read at start-up (line 40)
    amount_wei,    \* register_neuron: the burn amount (line 67)
    force_gas,     \* register_neuron: args.force_gas_price_gwei (0: not given)
    node,          \* register_neuron: what the node will answer
    gas_limit,     \* register_neuron: local gas_limit
    gas_price,     \* register_neuron: local gas_price
    tx,            \* register_neuron: the transaction built (line 132)
    sent           \* register_neuron: the transaction was broadcast (line 145)

codecVars == <<pc, ss58_address, as_hex, data, prefix, pubkey, checksum, h, outcome>>
batchVars == <<bpc, hotkeys, idx, amounts, pub32_list, crashed>>
regVars == <<rpc, balance_wei, amount_wei, force_gas, node, gas_limit, gas_price, tx, sent>>
vars == <<codecVars, batchVars, regVars>>

----------------------------------------------------------------------------
(* Python values *)

\* A local name that is not bound yet (no byte string holds -1).
Unbound == <<-1>>

Min(a, b) == IF a < b THEN a ELSE b

\* s[a:b] of Python for 0 <= a <= b: the slice is clamped to the sequence.
Slice(s, a, b) ==
    IF a >= Min(b, Len(s)) THEN <<>> ELSE SubSeq(s, a + 1, Min(b, Len(s)))

Pending == [kind |-> "pending", exc |-> "", msg |-> "", bytes |-> <<>>, str |-> <<>>]
Raise(e, m) == [kind |-> "raise", exc |-> e, msg |-> m, bytes |-> <<>>, str |-> <<>>]
ReturnBytes(b) == [kind |-> "return", exc |-> "", msg |-> "", bytes |-> b, str |-> <<>>]
ReturnStr(s) == [kind |-> "return", exc |-> "", msg |-> "", bytes |-> <<>>, str |-> s]

\* except ValueError: UnicodeEncodeError is a subclass of ValueError.
IsValueError(e) == e \in {"ValueError", "UnicodeEncodeError"}

----------------------------------------------------------------------------
(* base58.b58decode, called at ss58_to_pub32.py line 18 *)

Alphabet ==
    << "1", "2", "3", "4", "5", "6", "7", "8", "9",
       "A", "B", "C", "D", "E", "F", "G", "H", "J", "K", "L", "M", "N",
       "P", "Q", "R", "S", "T", "U", "V", "W", "X", "Y", "Z",
       "a", "b", "c", "d", "e", "f", "g", "h", "i", "j", "k",
       "m", "n", "o", "p", "q", "r", "s", "t", "u", "v", "w", "x", "y", "z" >>

Base == Len(Alphabet)

AlphabetChars == {Alphabet[i] : i \in 1..Base}

\* The characters str.rstrip() removes.
Whitespace == {" ", "\n"}

\* A character str.encode('ascii') rejects.
NonAscii == "U+00E9"

DigitOf(ch) == (CHOOSE i \in 1..Base : Alphabet[i] = ch) - 1

RECURSIVE RStrip(_)
RStrip(v) ==
    IF v # <<>> /\ v[Len(v)] \in Whitespace THEN RStrip(SubSeq(v, 1, Len(v) - 1)) ELSE v

RECURSIVE LStripOnes(_)
LStripOnes(v) ==
    IF v # <<>> /\ v[1] = Alphabet[1] THEN LStripOnes(Tail(v)) ELSE v

Front(s) == SubSeq(s, 1, Len(s) - 1)

Reverse(s) == [i \in 1..Len(s) |-> s[Len(s) + 1 - i]]

\* n * m + c for the integer n written as its bytes, least significant first,
\* without high zero bytes.
RECURSIVE MulAdd(_, _, _)
MulAdd(n, m, c) ==
    IF n = <<>>
    THEN IF c = 0 THEN <<>> ELSE <<c>>
    ELSE LET v == n[1] * m + c
         IN  <<v % 256>> \o MulAdd(Tail(n), m, v \div 256)

\* b58decode_int: decimal = decimal * base + map[char] over the characters in
\* order; the integer is kept as its bytes, least significant first.
RECURSIVE DecodeInt(_)
DecodeInt(v) ==
    IF v = <<>> THEN <<>> ELSE MulAdd(DecodeInt(Front(v)), Base, DigitOf(v[Len(v)]))

Zeros(n) == [i \in 1..n |-> 0]

\* b58decode that drops what it cannot read instead of raising
b58decode_SkipBad(address) ==
    LET v == SelectSeq(address, LAMBDA ch : ch \in AlphabetChars)
        rest == LStripOnes(v)
    IN  [exc |-> "", msg |-> "", data |-> Zeros(Len(v) - Len(rest)) \o Reverse(DecodeInt(rest))]

b58decode(address) ==
    LET v == RStrip(address)
        rest == LStripOnes(v)
    IN  IF \E i \in 1..Len(v) : v[i] = NonAscii
        THEN [exc |-> "UnicodeEncodeError", msg |-> "ordinal not in range(128)", data |-> <<>>]
        ELSE IF \E i \in 1..Len(rest) : rest[i] \notin AlphabetChars
        THEN [exc |-> "ValueError", msg |-> "Invalid character", data |-> <<>>]
        ELSE [exc |-> "", msg |-> "",
              \* acc.to_bytes(origlen - newlen + (acc.bit_length() + 7) // 8, 'big')
              data |-> Zeros(Len(v) - Len(rest)) \o Reverse(DecodeInt(rest))]

----------------------------------------------------------------------------
(* hashlib.blake2b(..., digest_size=64).digest(), called at line 31.        *)
(* The digest is a stand-in: a deterministic function of every byte of the  *)
(* message, 64 bytes long. Nothing below relies on collision resistance.    *)

DigestSize == 64

RECURSIVE Absorb(_)
Absorb(msg) ==
    IF msg = <<>> THEN 7 ELSE (Absorb(Front(msg)) * 31 + msg[Len(msg)] + 1) % 65521

blake2b(msg) ==
    LET s == Absorb(msg)
    IN  [i \in 1..DigestSize |->
            IF i = 1 THEN (s \div 256) % 256
            ELSE IF i = 2 THEN s % 256
            ELSE (s * i) % 256]

\* b'SS58PRE'
SS58PRE == <<83, 83, 53, 56, 80, 82, 69>>

----------------------------------------------------------------------------
(* bytes.hex(), called at line 36 *)

HexDigits == << "0", "1", "2", "3", "4", "5", "6", "7", "8", "9", "a", "b", "c", "d", "e", "f" >>

\* hex digits without zero padding, as hex() of an integer writes them
RECURSIVE BytesHex_NoPad(_)
BytesHex_NoPad(b) ==
    IF b = <<>> THEN <<>>
    ELSE (IF b[1] < 16 THEN <<>> ELSE <<HexDigits[(b[1] \div 16) + 1]>>)
         \o <<HexDigits[(b[1] % 16) + 1]>> \o BytesHex_NoPad(Tail(b))

RECURSIVE BytesHex(_)
BytesHex(b) ==
    IF b = <<>> THEN <<>>
    ELSE <<HexDigits[(b[1] \div 16) + 1], HexDigits[(b[1] % 16) + 1]>> \o BytesHex(Tail(b))

----------------------------------------------------------------------------
(* ss58_to_pub32 (ss58_to_pub32.py lines 6-38) *)

\* line 21: the first decoded byte selects the one-byte prefix below this value
PrefixThreshold == 64

\* the 2-byte branch taken only above the threshold
SplitFields_Inclusive(d) ==
    IF d[1] <= PrefixThreshold
    THEN [prefix |-> Slice(d, 0, 1), pubkey |-> Slice(d, 1, 33), checksum |-> Slice(d, 33, 35)]
    ELSE [prefix |-> Slice(d, 0, 2), pubkey |-> Slice(d, 2, 34), checksum |-> Slice(d, 34, 36)]

\* the 2-byte branch taking the key where the 1-byte branch has it
SplitFields_KeyAtOne(d) ==
    IF d[1] < PrefixThreshold
    THEN [prefix |-> Slice(d, 0, 1), pubkey |-> Slice(d, 1, 33), checksum |-> Slice(d, 33, 35)]
    ELSE [prefix |-> Slice(d, 0, 2), pubkey |-> Slice(d, 1, 33), checksum |-> Slice(d, 34, 36)]

\* lines 21-28: prefix, pubkey and checksum of a non-empty buffer
SplitFields(d) ==
    IF d[1] < PrefixThreshold
    THEN [prefix |-> Slice(d, 0, 1), pubkey |-> Slice(d, 1, 33), checksum |-> Slice(d, 33, 35)]
    ELSE [prefix |-> Slice(d, 0, 2), pubkey |-> Slice(d, 2, 34), checksum |-> Slice(d, 34, 36)]

\* line 31
ChecksumHash(pre, key) == blake2b(SS58PRE \o pre \o key)

\* a comparison of the first checksum byte only
ChecksumDiffers_FirstByte(cs, digest) == Slice(cs, 0, 1) # Slice(digest, 0, 1)

\* line 32: checksum != h[:2]
ChecksumDiffers(cs, digest) == cs # Slice(digest, 0, 2)

\* lines 35-38
FormatResult(key, hex) ==
    IF hex THEN ReturnStr(<<"0", "x">> \o BytesHex(key)) ELSE ReturnBytes(key)

\* The whole call, as one value: what ss58_to_pub32(address, hex) returns or raises.
ss58_to_pub32(address, hex) ==
    LET d == b58decode(address)
    IN  IF d.exc # "" THEN Raise(d.exc, d.msg)
        ELSE IF d.data = <<>> THEN Raise("IndexError", "index out of range")
        ELSE LET f == SplitFields(d.data)
                 digest == ChecksumHash(f.prefix, f.pubkey)
             IN  IF ChecksumDiffers(f.checksum, digest)
                 THEN Raise("ValueError", "Invalid SS58 checksum")
                 ELSE FormatResult(f.pubkey, hex)

----------------------------------------------------------------------------
(* encode of the specification (spec.md 4.1); the repository has no encoder *)

\* base58.b58encode: the inverse of b58decode on byte strings.
\* <<quotient, remainder>> of the big-endian byte string n divided by Base.
RECURSIVE LStripZeros(_)
LStripZeros(b) == IF b # <<>> /\ b[1] = 0 THEN LStripZeros(Tail(b)) ELSE b

RECURSIVE DivMod(_)
DivMod(n) ==
    IF n = <<>> THEN << <<>>, 0 >>
    ELSE LET p == DivMod(Front(n))
             v == p[2] * 256 + n[Len(n)]
         IN  <<Append(p[1], v \div Base), v % Base>>

\* b58encode_int: i, idx = divmod(i, base); string = alphabet[idx] + string
RECURSIVE EncodeInt(_)
EncodeInt(n) ==
    IF n = <<>> THEN <<>>
    ELSE LET qr == DivMod(n)
         IN  Append(EncodeInt(LStripZeros(qr[1])), Alphabet[qr[2] + 1])

b58encode(b) ==
    LET rest == LStripZeros(b)
    IN  [i \in 1..(Len(b) - Len(rest)) |-> Alphabet[1]] \o EncodeInt(rest)

\* prefix || public_key || first 2 bytes of blake2b-512("SS58PRE" || prefix || public_key)
EncodeBuffer(key, pre) == pre \o key \o Slice(blake2b(SS58PRE \o pre \o key), 0, 2)

encode(key, pre) == b58encode(EncodeBuffer(key, pre))

----------------------------------------------------------------------------
(* The addresses the calls are made on *)

NumKeys == 2
MaxExtra == 2

\* the length of a public key (the docstring's "raw 32-byte public key")
KeyLen == 32

Key(seed) == [i \in 1..KeyLen |-> (seed * 97 + i * 7) % 256]

Keys == {Key(n) : n \in 1..NumKeys}

OneBytePrefixes == {<<0>>, <<42>>, <<63>>, <<64>>, <<255>>}
TwoBytePrefixes == {<<0, 7>>, <<63, 1>>, <<64, 0>>, <<64, 200>>, <<127, 5>>, <<255, 255>>}
Prefixes == OneBytePrefixes \cup TwoBytePrefixes

EncodedBuffers == {EncodeBuffer(k, p) : k \in Keys, p \in Prefixes}

\* an encoded buffer followed by extra bytes
ExtendedBuffers == {b \o [i \in 1..e |-> 170] : b \in EncodedBuffers, e \in 1..MaxExtra}

\* every proper beginning of some encoded buffers, the empty buffer included
TruncatedBuffers ==
    {Slice(b, 0, n) : b \in {EncodeBuffer(Key(1), p) : p \in {<<0>>, <<42>>, <<64, 0>>}},
                      n \in 0..(KeyLen + 3)}

\* one byte of an encoded buffer changed
SetByte(b, i, v) == [b EXCEPT ![i] = v]
CorruptedBuffers ==
    {SetByte(b, i, (b[i] + 1) % 256) : b \in EncodedBuffers, i \in {10, KeyLen + 2, KeyLen + 3}}

Buffers == EncodedBuffers \cup ExtendedBuffers \cup TruncatedBuffers \cup CorruptedBuffers

\* text that is not the Base58 text of a buffer
Sample == encode(Key(1), <<42>>)
SampleWide == encode(Key(1), <<64, 200>>)
BadChars == {"0", "O", "I", "l", " ", NonAscii}
SetChar(t, i, ch) == [t EXCEPT ![i] = ch]
BadTexts ==
    {SetChar(t, i, ch) : t \in {Sample, SampleWide}, i \in {1, 20, Len(Sample)}, ch \in BadChars}
    \cup {<<ch>> \o t : t \in {Sample, <<>>}, ch \in BadChars}
    \cup {t \o <<ch>> \o w : t \in {Sample, SampleWide, <<>>}, ch \in BadChars \cup {"\n"},
                             w \in {<<>>, <<" ">>, <<"\n", " ">>}}

Addresses == {b58encode(b) : b \in Buffers} \cup BadTexts

\* the addresses of the two interleaved calls
PairAddresses ==
    { Sample, SampleWide, Sample \o <<"\n">>, SetChar(Sample, 20, "l"), <<>>,
      encode(Key(1), <<64>>), b58encode(EncodeBuffer(Key(2), <<42>>) \o <<170>>) }

----------------------------------------------------------------------------
(* ss58_to_pub32, statement by statement; c is the call (its own frame) *)

Calls == {1, 2}

\* a module-level variable, shared by every call: what call 1 bound is read
LocalOf_Shared(f, c) == IF f[1] = Unbound THEN f[c] ELSE f[1]

\* a local byte string of call c
LocalOf(f, c) == f[c]

Call(c, address, hex) ==
    /\ pc[c] = "idle"
    /\ pc' = [pc EXCEPT ![c] = "line18"]
    /\ ss58_address' = [ss58_address EXCEPT ![c] = address]
    /\ as_hex' = [as_hex EXCEPT ![c] = hex]
    /\ UNCHANGED <<data, prefix, pubkey, checksum, h, outcome, batchVars, regVars>>

\* line 18: data = base58.b58decode(ss58_address)
Line18(c) ==
    /\ pc[c] = "line18"
    /\ LET d == b58decode(ss58_address[c])
       IN  IF d.exc # ""
           THEN /\ outcome' = [outcome EXCEPT ![c] = Raise(d.exc, d.msg)]
                /\ pc' = [pc EXCEPT ![c] = "done"]
                /\ UNCHANGED data
           ELSE /\ data' = [data EXCEPT ![c] = d.data]
                /\ pc' = [pc EXCEPT ![c] = "line21"]
                /\ UNCHANGED outcome
    /\ UNCHANGED <<ss58_address, as_hex, prefix, pubkey, checksum, h, batchVars, regVars>>

\* lines 21-28: data[0] raises IndexError on an empty buffer
Line21(c) ==
    /\ pc[c] = "line21"
    /\ IF LocalOf(data, c) = <<>>
       THEN /\ outcome' = [outcome EXCEPT ![c] = Raise("IndexError", "index out of range")]
            /\ pc' = [pc EXCEPT ![c] = "done"]
            /\ UNCHANGED <<prefix, pubkey, checksum>>
       ELSE LET f == SplitFields(LocalOf(data, c))
            IN  /\ prefix' = [prefix EXCEPT ![c] = f.prefix]
                /\ pubkey' = [pubkey EXCEPT ![c] = f.pubkey]
                /\ checksum' = [checksum EXCEPT ![c] = f.checksum]
                /\ pc' = [pc EXCEPT ![c] = "line31"]
                /\ UNCHANGED outcome
    /\ UNCHANGED <<ss58_address, as_hex, data, h, batchVars, regVars>>

\* line 31: h = hashlib.blake2b(b'SS58PRE' + prefix + pubkey, digest_size=64).digest()
Line31(c) ==
    /\ pc[c] = "line31"
    /\ h' = [h EXCEPT ![c] = ChecksumHash(LocalOf(prefix, c), LocalOf(pubkey, c))]
    /\ pc' = [pc EXCEPT ![c] = "line32"]
    /\ UNCHANGED <<ss58_address, as_hex, data, prefix, pubkey, checksum, outcome,
                   batchVars, regVars>>

\* lines 32-33: raise ValueError("Invalid SS58 checksum")
Line32(c) ==
    /\ pc[c] = "line32"
    /\ IF ChecksumDiffers(LocalOf(checksum, c), LocalOf(h, c))
       THEN /\ outcome' = [outcome EXCEPT ![c] = Raise("ValueError", "Invalid SS58 checksum")]
            /\ pc' = [pc EXCEPT ![c] = "done"]
       ELSE /\ pc' = [pc EXCEPT ![c] = "line35"]
            /\ UNCHANGED outcome
    /\ UNCHANGED <<ss58_address, as_hex, data, prefix, pubkey, checksum, h,
                   batchVars, regVars>>

\* lines 35-38
Line35(c) ==
    /\ pc[c] = "line35"
    /\ outcome' = [outcome EXCEPT ![c] = FormatResult(LocalOf(pubkey, c), as_hex[c])]
    /\ pc' = [pc EXCEPT ![c] = "done"]
    /\ UNCHANGED <<ss58_address, as_hex, data, prefix, pubkey, checksum, h,
                   batchVars, regVars>>

\* the caller has taken the outcome: the frame is gone and c may be called again
Finish(c) ==
    /\ pc[c] = "done"
    /\ pc' = [pc EXCEPT ![c] = "idle"]
    /\ ss58_address' = [ss58_address EXCEPT ![c] = <<>>]
    /\ as_hex' = [as_hex EXCEPT ![c] = TRUE]
    /\ data' = [data EXCEPT ![c] = Unbound]
    /\ prefix' = [prefix EXCEPT ![c] = Unbound]
    /\ pubkey' = [pubkey EXCEPT ![c] = Unbound]
    /\ checksum' = [checksum EXCEPT ![c] = Unbound]
    /\ h' = [h EXCEPT ![c] = Unbound]
    /\ outcome' = [outcome EXCEPT ![c] = Pending]
    /\ UNCHANGED <<batchVars, regVars>>

CodecInit ==
    /\ pc = [c \in Calls |-> "idle"]
    /\ ss58_address = [c \in Calls |-> <<>>]
    /\ as_hex = [c \in Calls |-> TRUE]
    /\ data = [c \in Calls |-> Unbound]
    /\ prefix = [c \in Calls |-> Unbound]
    /\ pubkey = [c \in Calls |-> Unbound]
    /\ checksum = [c \in Calls |-> Unbound]
    /\ h = [c \in Calls |-> Unbound]
    /\ outcome = [c \in Calls |-> Pending]

BatchIdle ==
    /\ bpc = "off"
    /\ hotkeys = <<>>
    /\ idx = 0
    /\ amounts = <<>>
    /\ pub32_list = <<>>
    /\ crashed = ""

RegIdle ==
    /\ rpc = "off"
    /\ balance_wei = 0
    /\ amount_wei = 0
    /\ force_gas = 0
    /\ node = [estimate |-> 0, price |-> 0, hotkey_len |-> 0, contract |-> FALSE,
               accepts |-> FALSE]
    /\ gas_limit = 0
    /\ gas_price = 0
    /\ tx = [gas |-> 0, gasPrice |-> 0, value |-> 0]
    /\ sent = FALSE

Init == CodecInit /\ BatchIdle /\ RegIdle

\* one call at a time, on every address
Next ==
    \/ \E a \in Addresses, x \in BOOLEAN : Call(1, a, x)
    \/ Line18(1)
    \/ Line21(1)
    \/ Line31(1)
    \/ Line32(1)
    \/ Line35(1)
    \/ Finish(1)

Spec == Init /\ [][Next]_vars

\* two calls, their statements interleaved in any order
PairNext ==
    \E c \in Calls :
        \/ \E a \in PairAddresses, x \in BOOLEAN : Call(c, a, x)
        \/ Line18(c)
        \/ Line21(c)
        \/ Line31(c)
        \/ Line32(c)
        \/ Line35(c)
        \/ Finish(c)

PairSpec == Init /\ [][PairNext]_vars

----------------------------------------------------------------------------
(* get_all_validators_and_stake.py: the hotkey conversion loop, lines 31-58 *)

MaxHotkeys == 2

\* the keys of stake_info that the loop is run on
BatchAddresses ==
    { Sample, SampleWide,
      SetChar(Sample, 20, "0"),                                \* not Base58
      SetChar(Sample, 1, NonAscii),                            \* not ASCII
      b58encode(SetByte(EncodeBuffer(Key(1), <<42>>), KeyLen + 3, 0)),  \* wrong checksum
      <<"1">>,                                                 \* decodes to one byte
      <<>>,                                                    \* decodes to no byte
      <<" ">> }                                                \* decodes to no byte

\* the keys of a dict: lists without repetition
HotkeyLists ==
    UNION {{l \in [1..n -> BatchAddresses] : \A i, j \in 1..n : i # j => l[i] # l[j]}
           : n \in 0..MaxHotkeys}

StakeValues == {0, 5}

PyNone == [none |-> TRUE, str |-> <<>>]
PyStr(t) == [none |-> FALSE, str |-> t]

\* lines 31-38: btcli succeeded and its JSON lists these hotkeys
BatchFetch(l) ==
    /\ bpc = "off"
    /\ bpc' = "loop"
    /\ hotkeys' = l
    /\ idx' = 0
    /\ amounts' = <<>>
    /\ pub32_list' = <<>>
    /\ UNCHANGED <<crashed, codecVars, regVars>>

\* lines 32-34: btcli failed
BatchFetchError ==
    /\ bpc = "off"
    /\ bpc' = "exit"
    /\ UNCHANGED <<hotkeys, idx, amounts, pub32_list, crashed, codecVars, regVars>>

\* lines 43-54: one iteration of the loop, for hk = hotkeys[idx]
BatchIteration(total_value) ==
    /\ bpc = "loop"
    /\ idx < Len(hotkeys)
    /\ amounts' = Append(amounts, total_value)
    /\ LET r == ss58_to_pub32(hotkeys[idx + 1], TRUE)
       IN  IF r.kind = "return"
           THEN /\ pub32_list' = Append(pub32_list, PyStr(r.str))
                /\ idx' = idx + 1
                /\ UNCHANGED <<bpc, crashed>>
           ELSE IF IsValueError(r.exc)
           THEN /\ pub32_list' = Append(pub32_list, PyNone)
                /\ idx' = idx + 1
                /\ UNCHANGED <<bpc, crashed>>
           ELSE /\ bpc' = "crashed"
                /\ crashed' = r.exc
                /\ UNCHANGED <<pub32_list, idx>>
    /\ UNCHANGED <<hotkeys, codecVars, regVars>>

\* lines 56-58
BatchPrint ==
    /\ bpc = "loop"
    /\ idx = Len(hotkeys)
    /\ bpc' = "printed"
    /\ UNCHANGED <<hotkeys, idx, amounts, pub32_list, crashed, codecVars, regVars>>

BatchNext ==
    \/ \E l \in HotkeyLists : BatchFetch(l)
    \/ BatchFetchError
    \/ \E v \in StakeValues : BatchIteration(v)
    \/ BatchPrint

BatchSpec == Init /\ [][BatchNext]_vars

----------------------------------------------------------------------------
(* register_neuron.py: main(), lines 36-157. Amounts of money are counted   *)
(* in gwei (10^9 wei), gas in units of gas.                                 *)

\* line 126: gas_limit = 500_000
FallbackGasLimit == 500000

\* line 127: gas_price = w3.to_wei(100, 'gwei')
FallbackGasPriceGwei == 100

\* the answer of a call to the node that raises
Raises == -1

Balances == {0, 1000, 2000000, 30000000, 60000000}
Amounts == {0, 1000, 1000000, 20000000}
ForcedGasPrices == {0, 1, 100}
Estimates == {Raises, 21000, 400000}
NodeGasPrices == {Raises, 1, 50}

\* line 98: int(gas_estimate * 1.2)
BufferedGas(gas_estimate) == (gas_estimate * 12) \div 10

\* lines 20-53: the arguments are parsed, the balance is read
RegStart(b, a, f, n) ==
    /\ rpc = "off"
    /\ balance_wei' = b
    /\ amount_wei' = a
    /\ force_gas' = f
    /\ node' = n
    /\ rpc' = IF b = 0 THEN "exit" ELSE "prepare"
    /\ UNCHANGED <<gas_limit, gas_price, tx, sent, codecVars, batchVars>>

\* lines 55-85: the hotkey is 32 bytes and the contract loads, or the script exits
RegPrepare ==
    /\ rpc = "prepare"
    /\ rpc' = IF node.hotkey_len # KeyLen \/ ~node.contract THEN "exit" ELSE "gas"
    /\ UNCHANGED <<balance_wei, amount_wei, force_gas, node, gas_limit, gas_price, tx, sent,
                   codecVars, batchVars>>

\* lines 91-127: the try block. sys.exit raises SystemExit, which except Exception
\* does not catch; every other exception selects the fallback.
RegGas ==
    /\ rpc = "gas"
    /\ IF node.estimate = Raises \/ (force_gas = 0 /\ node.price = Raises)
       THEN /\ gas_limit' = FallbackGasLimit
            /\ gas_price' = FallbackGasPriceGwei
            /\ rpc' = "build"
       ELSE LET limit == BufferedGas(node.estimate)
                price == IF force_gas # 0 THEN force_gas ELSE node.price
                total_cost_wei == limit * price + amount_wei
            IN  /\ gas_limit' = limit
                /\ gas_price' = price
                /\ rpc' = IF balance_wei < total_cost_wei THEN "exit" ELSE "build"
    /\ UNCHANGED <<balance_wei, amount_wei, force_gas, node, tx, sent, codecVars, batchVars>>

\* lines 130-142: the transaction is built and signed
RegSign ==
    /\ rpc = "build"
    /\ tx' = [gas |-> gas_limit, gasPrice |-> gas_price, value |-> amount_wei]
    /\ rpc' = "signed"
    /\ UNCHANGED <<balance_wei, amount_wei, force_gas, node, gas_limit, gas_price, sent,
                   codecVars, batchVars>>

\* lines 144-149: send_raw_transaction, which may raise
RegSend ==
    /\ rpc = "signed"
    /\ IF node.accepts
       THEN sent' = TRUE /\ rpc' = "sent"
       ELSE sent' = FALSE /\ rpc' = "exit"
    /\ UNCHANGED <<balance_wei, amount_wei, force_gas, node, gas_limit, gas_price, tx,
                   codecVars, batchVars>>

\* lines 151-167: the receipt is printed
RegReceipt ==
    /\ rpc = "sent"
    /\ rpc' = "finished"
    /\ UNCHANGED <<balance_wei, amount_wei, force_gas, node, gas_limit, gas_price, tx, sent,
                   codecVars, batchVars>>

Nodes ==
    [estimate : Estimates, price : NodeGasPrices, hotkey_len : {KeyLen - 1, KeyLen},
     contract : BOOLEAN, accepts : BOOLEAN]

RegNext ==
    \/ \E b \in Balances, a \in Amounts, f \in ForcedGasPrices, n \in Nodes : RegStart(b, a, f, n)
    \/ RegPrepare
    \/ RegGas
    \/ RegSign
    \/ RegSend
    \/ RegReceipt

RegSpec == Init /\ [][RegNext]_vars

----------------------------------------------------------------------------
(* The outcomes of the specification, as the code raises them *)

\* DecodeError: what base58.b58decode raises
DecodeError(o) ==
    /\ o.kind = "raise"
    /\ \/ o.exc = "ValueError" /\ o.msg = "Invalid character"
       \/ o.exc = "UnicodeEncodeError"

\* ChecksumMismatchError: line 33
ChecksumMismatchError(o) ==
    o.kind = "raise" /\ o.exc = "ValueError" /\ o.msg = "Invalid SS58 checksum"

NoResult(o) == o.bytes = <<>> /\ o.str = <<>>

Started(c) == pc[c] # "idle"
Done(c) == pc[c] = "done"
Sliced(c) == prefix[c] # Unbound
Hashed(c) == h[c] # Unbound

\* the bytes d[from], ..., d[to - 1] (0-based) that the buffer has
BytesAt(d, from, to) == [i \in 1..(Min(to, Len(d)) - from) |-> d[from + i]]

\* the first 2 bytes of blake2b-512("SS58PRE" || prefix || public_key)
ExpectedChecksum(pre, key) ==
    LET digest == blake2b(SS58PRE \o pre \o key) IN <<digest[1], digest[2]>>

----------------------------------------------------------------------------
(* C1: a call returns a public key only when the 2-byte checksum taken from *)
(* the buffer equals the first 2 bytes of blake2b-512("SS58PRE" || prefix   *)
(* || public_key); a call that has taken a differing checksum ends with     *)
(* ValueError("Invalid SS58 checksum") and no result.                       *)
C1_ChecksumGate ==
    \A c \in Calls :
        /\ outcome[c].kind = "return" =>
               /\ Sliced(c)
               /\ checksum[c] = ExpectedChecksum(prefix[c], pubkey[c])
        /\ (Done(c) /\ Sliced(c) /\ checksum[c] # ExpectedChecksum(prefix[c], pubkey[c])) =>
               /\ ChecksumMismatchError(outcome[c])
               /\ NoResult(outcome[c])

\* a full-length buffer whose checksum differs in its last byte only was rejected
C1_Witness ==
    \E c \in Calls :
        /\ Done(c)
        /\ Sliced(c)
        /\ Len(checksum[c]) = 2
        /\ checksum[c][1] = ExpectedChecksum(prefix[c], pubkey[c])[1]
        /\ checksum[c][2] # ExpectedChecksum(prefix[c], pubkey[c])[2]
        /\ ChecksumMismatchError(outcome[c])

----------------------------------------------------------------------------
(* C2 *)

EncodedPairs == {<<encode(k, p), k, p>> : k \in Keys, p \in Prefixes}

\* the prefixes the decoder reads back with the length they have
BranchPrefix(p) ==
    \/ Len(p) = 1 /\ p[1] < 64
    \/ Len(p) = 2 /\ p[1] >= 64

\* C2 as stated: for every 32-byte key k and every 1-byte or 2-byte prefix p,
\* decode(encode(k, p)) succeeds and returns k.
C2_RoundTripAnyPrefix ==
    \A c \in Calls : \A e \in EncodedPairs :
        (Done(c) /\ ss58_address[c] = e[1]) => outcome[c] = FormatResult(e[2], as_hex[c])

\* C2 amended: for every 32-byte key k and every prefix p that is 1 byte below
\* 64 or 2 bytes with a first byte of at least 64, decode(encode(k, p))
\* succeeds and returns k.
C2_RoundTrip ==
    \A c \in Calls : \A e \in EncodedPairs :
        (Done(c) /\ ss58_address[c] = e[1] /\ BranchPrefix(e[3])) =>
            outcome[c] = FormatResult(e[2], as_hex[c])

\* an address encoded with a 2-byte prefix was decoded to its key
C2_Witness ==
    \E c \in Calls : \E e \in EncodedPairs :
        /\ Done(c)
        /\ ss58_address[c] = e[1]
        /\ Len(e[3]) = 2
        /\ BranchPrefix(e[3])
        /\ ~as_hex[c]
        /\ outcome[c].bytes = e[2]

----------------------------------------------------------------------------
(* C3: a call whose decoded buffer is shorter than its branch needs (35     *)
(* bytes when data[0] < 64, else 36; any buffer of 0 to 34 bytes) fails     *)
(* with an error that is neither the checksum error nor an index error,     *)
(* and it fails before a slice is taken or a hash computed.                 *)
TooShort(d) == Len(d) < (IF d # <<>> /\ d[1] >= 64 THEN 36 ELSE 35)

C3_LengthValidation ==
    \A c \in Calls :
        (data[c] # Unbound /\ TooShort(data[c]) /\ pc[c] # "line21") =>
            /\ Done(c)
            /\ outcome[c].kind = "raise"
            /\ ~ChecksumMismatchError(outcome[c])
            /\ outcome[c].exc # "IndexError"
            /\ ~Sliced(c)
            /\ ~Hashed(c)

----------------------------------------------------------------------------
(* C4: every accepted address has a decoded buffer of exactly               *)
(* len(prefix) + 32 + 2 bytes.                                              *)
C4_ExactLength ==
    \A c \in Calls :
        outcome[c].kind = "return" => Len(data[c]) = Len(prefix[c]) + 32 + 2

----------------------------------------------------------------------------
(* C5: once the fields are taken, data[0] < 64 gives prefix = data[0:1],    *)
(* pubkey = data[1:33], checksum = data[33:35], and data[0] >= 64 gives     *)
(* prefix = data[0:2], pubkey = data[2:34], checksum = data[34:36]; the     *)
(* hash is taken over "SS58PRE", that prefix and that public key.           *)
C5_BranchSelection ==
    \A c \in Calls :
        Sliced(c) =>
            LET d == data[c]
                n == IF d[1] < 64 THEN 1 ELSE 2
            IN  /\ prefix[c] = BytesAt(d, 0, n)
                /\ pubkey[c] = BytesAt(d, n, n + 32)
                /\ checksum[c] = BytesAt(d, n + 32, n + 34)
                /\ Hashed(c) => h[c] = blake2b(SS58PRE \o BytesAt(d, 0, n) \o BytesAt(d, n, n + 32))

\* a buffer whose first byte is exactly 64 was split and hashed
C5_Witness ==
    \E c \in Calls : Hashed(c) /\ data[c][1] = 64 /\ Len(data[c]) >= 36

----------------------------------------------------------------------------
(* C6: a returned public key is the 32 bytes after the prefix, checksum     *)
(* validated: those 32 bytes (as_hex false), or "0x" and their 64 lowercase *)
(* hex digits (as_hex true).                                                *)
LowerHex == {HexDigits[i] : i \in 1..16}

HexValue(ch) == (CHOOSE i \in 1..16 : HexDigits[i] = ch) - 1

C6_ReturnedKey ==
    \A c \in Calls :
        outcome[c].kind = "return" =>
            LET o == outcome[c]
                n == IF data[c][1] < 64 THEN 1 ELSE 2
                key == [i \in 1..32 |-> data[c][n + i]]
            IN  /\ Len(data[c]) >= n + 34
                /\ <<data[c][n + 33], data[c][n + 34]>> = ExpectedChecksum(BytesAt(data[c], 0, n), key)
                /\ IF as_hex[c]
                   THEN /\ Len(o.str) = 66
                        /\ o.str[1] = "0"
                        /\ o.str[2] = "x"
                        /\ \A i \in 3..66 : o.str[i] \in LowerHex
                        /\ \A i \in 1..32 :
                               16 * HexValue(o.str[2 * i + 1]) + HexValue(o.str[2 * i + 2]) = key[i]
                        /\ o.bytes = <<>>
                   ELSE /\ o.bytes = key
                        /\ o.str = <<>>

\* a hex result was returned for a buffer longer than its fields
C6_Witness ==
    \E c \in Calls :
        /\ outcome[c].kind = "return"
        /\ as_hex[c]
        /\ Len(data[c]) > 36
        /\ Len(outcome[c].str) = 66

----------------------------------------------------------------------------
(* C7 *)

HasBadChar(t) == \E i \in 1..Len(t) : t[i] \notin AlphabetChars

\* C7 as stated: every call on a string holding a character outside the
\* Base58 alphabet ends at line 18 with the decode error, before the first byte
\* is read, a slice taken or a hash computed.
C7_AlphabetRejectionAnyChar ==
    \A c \in Calls :
        (Started(c) /\ pc[c] # "line18" /\ HasBadChar(ss58_address[c])) =>
            /\ Done(c)
            /\ DecodeError(outcome[c])
            /\ ~ChecksumMismatchError(outcome[c])
            /\ data[c] = Unbound
            /\ ~Sliced(c)
            /\ ~Hashed(c)

\* C7 amended: every call on a string that, with its trailing whitespace
\* removed, holds a character outside the Base58 alphabet ends at line 18 with
\* the decode error (not the checksum error), before the first byte is read,
\* a slice taken or a hash computed.
C7_AlphabetRejection ==
    \A c \in Calls :
        (Started(c) /\ pc[c] # "line18" /\ HasBadChar(RStrip(ss58_address[c]))) =>
            /\ Done(c)
            /\ DecodeError(outcome[c])
            /\ ~ChecksumMismatchError(outcome[c])
            /\ NoResult(outcome[c])
            /\ data[c] = Unbound
            /\ ~Sliced(c)
            /\ ~Hashed(c)

\* a string with one character outside the alphabet in its middle was rejected
C7_Witness ==
    \E c \in Calls :
        /\ Done(c)
        /\ Len(ss58_address[c]) > 20
        /\ ss58_address[c][20] \in {"0", "O", "I", "l"}
        /\ DecodeError(outcome[c])

----------------------------------------------------------------------------
(* C8: two calls on the same address with the same as_hex, their statements *)
(* interleaved with each other's and with other calls', end with the same   *)
(* outcome.                                                                 *)
C8_SameOutcome ==
    \A c1, c2 \in Calls :
        (Done(c1) /\ Done(c2) /\ ss58_address[c1] = ss58_address[c2] /\ as_hex[c1] = as_hex[c2])
            => outcome[c1] = outcome[c2]

\* two calls on the same address have both returned the key
C8_Witness ==
    /\ Done(1)
    /\ Done(2)
    /\ ss58_address[1] = ss58_address[2]
    /\ as_hex[1] = as_hex[2]
    /\ outcome[1].kind = "return"
    /\ outcome[2].kind = "return"

----------------------------------------------------------------------------
(* C9: in the batch script no failed conversion ends the script: None is    *)
(* recorded for the hotkey and the loop goes on, so that after the loop     *)
(* hotkeys, pub32_list and amounts are equally long and pub32_list[i] is    *)
(* the key of hotkeys[i] or None.                                           *)
C9_FailuresRecordedAsNone ==
    /\ bpc # "crashed"
    /\ \A i \in 1..Len(pub32_list) :
           pub32_list[i] =
               IF ss58_to_pub32(hotkeys[i], TRUE).kind = "return"
               THEN PyStr(ss58_to_pub32(hotkeys[i], TRUE).str)
               ELSE PyNone
    /\ bpc = "printed" =>
           /\ Len(pub32_list) = Len(hotkeys)
           /\ Len(amounts) = Len(hotkeys)

----------------------------------------------------------------------------
(* C10: register_neuron signs and broadcasts no transaction when the        *)
(* balance read at start-up is below gas_limit * gas_price + amount_wei for *)
(* the gas_limit and gas_price placed in the transaction.                   *)
C10_NoSendWithoutFunds ==
    sent => balance_wei >= tx.gas * tx.gasPrice + tx.value

====
